---- MODULE Spec2Model ----
(***************************************************************************)
(* Request execution core of the SynapsAI Python client                    *)
(* (src/src/synapsai/client.py): the retry classifier, the backoff policy, *)
(* the blocking and the cooperative request executor (_request), the       *)
(* streaming executor (_stream_response) and its line decoder.             *)
(*                                                                         *)
(* Optional values (Python None / a value) are sequences of length <= 1.   *)
(* Text lines are sequences of one-character strings.  Delays are in       *)
(* milliseconds.                                                           *)
(***************************************************************************)
EXTENDS Integers, Sequences, FiniteSets, TLC

VARIABLES client, call, pure

vars == <<client, call, pure>>

None == << >>
Some(x) == <<x>>

Min(a, b) == IF a <= b THEN a ELSE b
Max(a, b) == IF a >= b THEN a ELSE b

RECURSIVE Pow2(_)
Pow2(n) == IF n <= 0 THEN 1 ELSE 2 * Pow2(n - 1)

(***************************************************************************)
(* Bounds of the model.                                                    *)
(***************************************************************************)
\* largest max_retries argument passed to the constructor
MaxRetriesArg == 3
\* the max_retries arguments passed to the constructor, from -1 on
RetriesArgs == (-1)..MaxRetriesArg

\* the HTTP status codes the transport answers with in the executor
Statuses == {200, 399, 400, 401, 429, 503}
\* the jitter values random.uniform(0, 0.5) is sampled at, in milliseconds
Jitters == {0, 500}
\* the exceptions the transport raises: the two classes the executor
\* catches, and one that is neither (any other Exception)
TransportExcs == {"RequestError", "TimeoutException"}
OtherExcs == {"OtherException"}
Methods == {"GET", "POST"}

(***************************************************************************)
(* BaseClient.__init__: the attempt budget is clamped to at least 1.       *)
(***************************************************************************)
\* BaseClient.__init__ storing max_retries as passed
BaseClient_init_NoClamp(max_retries_arg) ==
    [max_retries |-> max_retries_arg]

BaseClient_init(max_retries_arg) ==
    [max_retries |-> Max(1, max_retries_arg)]

(***************************************************************************)
(* BaseClient._should_retry.  exc and response are optional values; an     *)
(* exception is named by its class.                                        *)
(***************************************************************************)
IsRequestError(e) == e \in TransportExcs

\* the classifier without the 429 rule
should_retry_No429(method, response, exc, attempt) ==
    IF exc # None
    THEN IsRequestError(exc[1])
    ELSE response # None /\ 500 <= response[1] /\ response[1] < 600

\* the classifier with the 5xx range closed at 600
should_retry_Through600(method, response, exc, attempt) ==
    IF exc # None
    THEN IsRequestError(exc[1])
    ELSE response # None
         /\ (response[1] = 429 \/ (500 <= response[1] /\ response[1] <= 600))

\* the classifier retrying every status from 400 on
should_retry_Any400(method, response, exc, attempt) ==
    IF exc # None
    THEN IsRequestError(exc[1])
    ELSE response # None /\ response[1] >= 400

should_retry(method, response, exc, attempt) ==
    IF exc # None
    THEN IF IsRequestError(exc[1]) THEN TRUE ELSE FALSE
    ELSE IF response # None
         THEN IF response[1] = 429 THEN TRUE
              ELSE IF 500 <= response[1] /\ response[1] < 600 THEN TRUE
              ELSE FALSE
         ELSE FALSE

(***************************************************************************)
(* BaseClient._backoff_delay, in milliseconds; jitter is the value drawn   *)
(* from random.uniform(0, 0.5).                                            *)
(***************************************************************************)
BackoffBase == 500
BackoffCap == 30000

backoff_delay(attempt, jitter) ==
    Min(BackoffBase * Pow2(attempt) + jitter, BackoffCap)

(***************************************************************************)
(* Terminal results of a call.                                             *)
(***************************************************************************)
Returned(status) ==
    [type |-> "return", exc |-> "", status |-> Some(status), msg |-> ""]
Raised(exc, status_code, msg) ==
    [type |-> "raise", exc |-> exc, status |-> status_code, msg |-> msg]

(***************************************************************************)
(* BaseClient._handle_error_response as the executors use it: the class    *)
(* and status_code of what it raises.  response.json() and response.text   *)
(* need the body; on a streaming response whose body was not read both     *)
(* raise httpx.ResponseNotRead, which is not caught by the last raise.     *)
(***************************************************************************)
handle_error_response(status, body_read) ==
    IF body_read
    THEN Raised("APIError", Some(status), "from response")
    ELSE Raised("ResponseNotRead", None, "")

(***************************************************************************)
(* One logical call: the locals of _request / _stream_response, the        *)
(* position in the function (pc), and the record of what the call did      *)
(* (requests issued, outcomes observed, sleeps performed, events yielded,  *)
(* terminal results delivered).                                            *)
(***************************************************************************)
NewCall(kind, mode, method, lines) ==
    [kind          |-> kind,      \* "request" or "stream"
     mode          |-> mode,      \* "sync" (SynapsAI) or "async" (AsyncSynapsAI)
     method        |-> method,
     pc            |-> "loop",
     attempt       |-> 0,
     last_exc      |-> None,
     last_response |-> None,
     response      |-> None,      \* status of the response of this attempt
     body_read     |-> FALSE,     \* the body of that response has been read
     open          |-> FALSE,     \* a streaming response is held open
     delay         |-> None,
     caught        |-> None,      \* the exception bound to e in the except clause
     lines         |-> lines,     \* the lines every response body consists of
     cursor        |-> 0,         \* lines read from the open response
     nreq          |-> 0,         \* HTTP requests issued
     outcomes      |-> << >>,     \* outcome of every finished attempt
     sleeps        |-> << >>,     \* attempt index of every finished sleep
     events        |-> << >>,     \* events yielded to the consumer
     sources       |-> << >>,     \* index of the line each event was read from
     err_nreq      |-> None,      \* nreq when reading lines first failed
     err_events    |-> None,      \* Len(events) when reading lines first failed
     read_fails    |-> << >>,     \* cursor at every failure of reading lines
     cancelled     |-> FALSE,     \* the awaiting task was cancelled in this call
     results       |-> << >>]     \* terminal results delivered to the caller

Outcome(tag, status) == [tag |-> tag, status |-> status]

Finish(k, r) ==
    [k EXCEPT !.pc = "done", !.open = FALSE, !.results = Append(@, r)]

Calls == DOMAIN call

(***************************************************************************)
(* The budget test of every retry: attempt < (self.max_retries - 1).       *)
(***************************************************************************)
\* the budget test off by one
BudgetRemains_OffByOne(attempt) == attempt < client.max_retries

\* the retry test without the budget
BudgetRemains_Always(attempt) == TRUE

BudgetRemains(attempt) == attempt < client.max_retries - 1

(***************************************************************************)
(* _request, after the loop (lines 265-270).                               *)
(***************************************************************************)
RequestAfterLoop(k) ==
    IF k.last_response # None
    THEN Finish(k, handle_error_response(k.last_response[1], TRUE))
    ELSE IF k.last_exc # None
         THEN Finish(k, Raised("APIError", None, "str(last_exc)"))
         ELSE Finish(k, Raised("APIError", None, "Unknown error during request"))

(***************************************************************************)
(* _stream_response, after the loop (line 355).                            *)
(***************************************************************************)
StreamAfterLoop(k) ==
    Finish(k, Raised("APIError", None, "Failed to establish stream after retries"))

(***************************************************************************)
(* The loop test and, when it passes, the HTTP request of the attempt      *)
(* (client.request / client.stream).                                       *)
(***************************************************************************)
LoopTest(c) ==
    /\ call[c].pc = "loop"
    /\ LET k == call[c] IN
       call' = [call EXCEPT ![c] =
           IF k.attempt < client.max_retries
           THEN [k EXCEPT !.pc = "inflight", !.nreq = k.nreq + 1,
                          !.response = None, !.body_read = FALSE]
           ELSE IF k.kind = "request" THEN RequestAfterLoop(k)
                ELSE StreamAfterLoop(k)]
    /\ UNCHANGED <<client, pure>>

(***************************************************************************)
(* _request: client.request returned a response with status s.             *)
(***************************************************************************)
\* _request with the status test s > 400
Respond_Gt400(c, s) ==
    /\ call[c].pc = "inflight"
    /\ call[c].kind = "request"
    /\ LET k0 == call[c]
           k  == [k0 EXCEPT !.response = Some(s), !.last_response = Some(s),
                            !.body_read = TRUE,
                            !.outcomes = Append(@,
                                Outcome(IF s >= 400 THEN "HttpFailure"
                                        ELSE "Success", s))]
       IN call' = [call EXCEPT ![c] =
           IF s > 400
           THEN IF should_retry(k.method, Some(s), None, k.attempt)
                   /\ BudgetRemains(k.attempt)
                THEN [k EXCEPT !.pc = "drain"]
                ELSE Finish(k, handle_error_response(s, k.body_read))
           ELSE Finish(k, Returned(s))]
    /\ UNCHANGED <<client, pure>>

\* _request raising the transport failure of an earlier attempt, when there
\* was one, in place of returning the response
Respond_SurfacesEarlier(c, s) ==
    /\ call[c].pc = "inflight"
    /\ call[c].kind = "request"
    /\ LET k0 == call[c]
           k  == [k0 EXCEPT !.response = Some(s), !.last_response = Some(s),
                            !.body_read = TRUE,
                            !.outcomes = Append(@,
                                Outcome(IF s >= 400 THEN "HttpFailure"
                                        ELSE "Success", s))]
       IN call' = [call EXCEPT ![c] =
           IF s >= 400
           THEN IF should_retry(k.method, Some(s), None, k.attempt)
                   /\ BudgetRemains(k.attempt)
                THEN [k EXCEPT !.pc = "drain"]
                ELSE Finish(k, handle_error_response(s, k.body_read))
           ELSE IF k.last_exc # None
                THEN Finish(k, Raised("APIError", None, "str(last_exc)"))
                ELSE Finish(k, Returned(s))]
    /\ UNCHANGED <<client, pure>>

Respond(c, s) ==
    /\ call[c].pc = "inflight"
    /\ call[c].kind = "request"
    /\ LET k0 == call[c]
           k  == [k0 EXCEPT !.response = Some(s), !.last_response = Some(s),
                            !.body_read = TRUE,
                            !.outcomes = Append(@,
                                Outcome(IF s >= 400 THEN "HttpFailure"
                                        ELSE "Success", s))]
       IN call' = [call EXCEPT ![c] =
           IF s >= 400
           THEN IF should_retry(k.method, Some(s), None, k.attempt)
                   /\ BudgetRemains(k.attempt)
                THEN [k EXCEPT !.pc = "drain"]
                ELSE Finish(k, handle_error_response(s, k.body_read))
           ELSE Finish(k, Returned(s))]
    /\ UNCHANGED <<client, pure>>

(***************************************************************************)
(* _request: client.request raised httpx.RequestError or                   *)
(* httpx.TimeoutException.                                                 *)
(***************************************************************************)
\* _request mapping the last response, when there is one, once the budget
\* is spent on a transport failure
RequestFails_LastResponse(c, e) ==
    /\ call[c].pc = "inflight"
    /\ call[c].kind = "request"
    /\ LET k0 == call[c]
           k  == [k0 EXCEPT !.last_exc = Some(e), !.caught = Some(e),
                            !.outcomes = Append(@, Outcome("TransportFailure", 0))]
       IN call' = [call EXCEPT ![c] =
           IF should_retry(k.method, None, Some(e), k.attempt)
              /\ BudgetRemains(k.attempt)
           THEN [k EXCEPT !.pc = "backoff"]
           ELSE IF k.last_response # None
           THEN Finish(k, handle_error_response(k.last_response[1], TRUE))
           ELSE Finish(k, Raised("APIError", None, "str(e)"))]
    /\ UNCHANGED <<client, pure>>

RequestFails(c, e) ==
    /\ call[c].pc = "inflight"
    /\ call[c].kind = "request"
    /\ LET k0 == call[c]
           k  == [k0 EXCEPT !.last_exc = Some(e), !.caught = Some(e),
                            !.outcomes = Append(@, Outcome("TransportFailure", 0))]
       IN call' = [call EXCEPT ![c] =
           IF should_retry(k.method, None, Some(e), k.attempt)
              /\ BudgetRemains(k.attempt)
           THEN [k EXCEPT !.pc = "backoff"]
           ELSE Finish(k, Raised("APIError", None, "str(e)"))]
    /\ UNCHANGED <<client, pure>>

(***************************************************************************)
(* _request: client.request raised an exception the except clause does     *)
(* not name; it leaves _request as it is.                                  *)
(***************************************************************************)
\* _request with `except Exception` in place of the two httpx classes
RequestRaises_Wrapped(c, e) ==
    /\ call[c].pc = "inflight"
    /\ call[c].kind = "request"
    /\ LET k0 == call[c]
           k  == [k0 EXCEPT !.last_exc = Some(e), !.caught = Some(e),
                            !.outcomes = Append(@, Outcome("OtherException", 0))]
       IN call' = [call EXCEPT ![c] =
           IF should_retry(k.method, None, Some(e), k.attempt)
              /\ BudgetRemains(k.attempt)
           THEN [k EXCEPT !.pc = "backoff"]
           ELSE Finish(k, Raised("APIError", None, "str(e)"))]
    /\ UNCHANGED <<client, pure>>

RequestRaises(c, e) ==
    /\ call[c].pc = "inflight"
    /\ call[c].kind = "request"
    /\ LET k0 == call[c]
           k  == [k0 EXCEPT !.outcomes = Append(@, Outcome("OtherException", 0))]
       IN call' = [call EXCEPT ![c] = Finish(k, Raised(e, None, ""))]
    /\ UNCHANGED <<client, pure>>

(***************************************************************************)
(* response.read() / await response.aread() before a retry; an Exception   *)
(* it raises is swallowed.                                                 *)
(***************************************************************************)
\* the cooperative executor reading the body outside a try block
Drain_AsyncUnguarded(c, ok) ==
    /\ call[c].pc = "drain"
    /\ call' = [call EXCEPT ![c] =
           IF call[c].mode = "async" /\ ~ok
           THEN Finish(call[c], Raised("OtherException", None, ""))
           ELSE [call[c] EXCEPT !.pc = "backoff", !.body_read = (@ \/ ok)]]
    /\ UNCHANGED <<client, pure>>

\* response.read() outside a try block: what it raises ends the call
Drain_Unguarded(c, ok) ==
    /\ call[c].pc = "drain"
    /\ call' = [call EXCEPT ![c] =
           IF ~ok
           THEN Finish(call[c], Raised("OtherException", None, ""))
           ELSE [call[c] EXCEPT !.pc = "backoff", !.body_read = TRUE]]
    /\ UNCHANGED <<client, pure>>

Drain(c, ok) ==
    /\ call[c].pc = "drain"
    /\ call' = [call EXCEPT ![c].pc = "backoff",
                            ![c].body_read = (@ \/ ok)]
    /\ UNCHANGED <<client, pure>>

(***************************************************************************)
(* delay = self._backoff_delay(attempt); the sleep begins.                 *)
(***************************************************************************)
\* the delay computed from the 1-based number of the failed attempt
Backoff_OneBased(c, jitter) ==
    /\ call[c].pc = "backoff"
    /\ call' = [call EXCEPT ![c].pc = "sleeping",
                            ![c].delay = Some(backoff_delay(call[c].attempt + 1, jitter))]
    /\ UNCHANGED <<client, pure>>

Backoff(c, jitter) ==
    /\ call[c].pc = "backoff"
    /\ call' = [call EXCEPT ![c].pc = "sleeping",
                            ![c].delay = Some(backoff_delay(call[c].attempt, jitter))]
    /\ UNCHANGED <<client, pure>>

(***************************************************************************)
(* time.sleep(delay) / await asyncio.sleep(delay) returns.                 *)
(***************************************************************************)
Wake(c) ==
    /\ call[c].pc = "sleeping"
    /\ call' = [call EXCEPT ![c].pc = "incr",
                            ![c].sleeps = Append(@, call[c].attempt)]
    /\ UNCHANGED <<client, pure>>

(***************************************************************************)
(* attempt += 1; continue.  In _stream_response the continue leaves the    *)
(* with block, which releases the response.                                *)
(***************************************************************************)
\* the retry without attempt += 1
Incr_NoIncrement(c) ==
    /\ call[c].pc = "incr"
    /\ call' = [call EXCEPT ![c].pc = "loop", ![c].open = FALSE]
    /\ UNCHANGED <<client, pure>>

\* the retry with the attempt counter kept on the client, one for all calls
Incr_SharedAttempt(c) ==
    /\ call[c].pc = "incr"
    /\ call' = [d \in Calls |->
                  IF d = c
                  THEN [call[d] EXCEPT !.pc = "loop", !.attempt = @ + 1,
                                       !.open = FALSE]
                  ELSE [call[d] EXCEPT !.attempt = @ + 1]]
    /\ UNCHANGED <<client, pure>>

\* the retry of a stream whose response is not held in a with block
Incr_KeepsOpen(c) ==
    /\ call[c].pc = "incr"
    /\ call' = [call EXCEPT ![c].pc = "loop", ![c].attempt = @ + 1]
    /\ UNCHANGED <<client, pure>>

Incr(c) ==
    /\ call[c].pc = "incr"
    /\ call' = [call EXCEPT ![c].pc = "loop",
                            ![c].attempt = @ + 1,
                            ![c].open = FALSE]
    /\ UNCHANGED <<client, pure>>

(***************************************************************************)
(* Text of the stream.  A line is a sequence of one-character strings.     *)
(***************************************************************************)
Whitespace == {" ", "\t", "\r"}

RECURSIVE lstrip(_)
lstrip(s) ==
    IF s # << >> /\ Head(s) \in Whitespace THEN lstrip(Tail(s)) ELSE s

RECURSIVE rstrip(_)
rstrip(s) ==
    IF s # << >> /\ s[Len(s)] \in Whitespace
    THEN rstrip(SubSeq(s, 1, Len(s) - 1))
    ELSE s

\* str.strip()
strip(s) == rstrip(lstrip(s))

\* str.startswith(prefix)
startswith(s, prefix) ==
    /\ Len(s) >= Len(prefix)
    /\ SubSeq(s, 1, Len(prefix)) = prefix

\* "data: "
DataPrefix == <<"d", "a", "t", "a", ":", " ">>
\* "[DONE]"
Sentinel == <<"[", "D", "O", "N", "E", "]">>

Digits == {"0", "1", "2"}
DigitValue(ch) == IF ch = "0" THEN 0 ELSE IF ch = "1" THEN 1 ELSE 2

(***************************************************************************)
(* json.loads on the texts of the model: a number of one digit, or an      *)
(* object of one member with a one-letter key and a one-digit value,       *)
(* either of them between optional JSON whitespace.  Every other text of   *)
(* the model is no JSON document and raises json.JSONDecodeError (ok is    *)
(* FALSE).                                                                 *)
(***************************************************************************)
JsonNumber(n) == [t |-> "number", key |-> "", val |-> n]
JsonObject(key, n) == [t |-> "object", key |-> key, val |-> n]
JsonError == [ok |-> FALSE, value |-> JsonNumber(0)]

json_loads(text) ==
    LET s == strip(text) IN
    IF Len(s) = 1 /\ s[1] \in Digits
    THEN [ok |-> TRUE, value |-> JsonNumber(DigitValue(s[1]))]
    ELSE IF /\ Len(s) = 7
            /\ s[1] = "{" /\ s[2] = "\"" /\ s[3] \in {"x", "y"} /\ s[4] = "\""
            /\ s[5] = ":" /\ s[6] \in Digits /\ s[7] = "}"
         THEN [ok |-> TRUE, value |-> JsonObject(s[3], DigitValue(s[6]))]
         ELSE JsonError

Nothing == JsonNumber(0)

\* the loop body without the sentinel test
decode_line_NoSentinel(raw_line) ==
    LET line == strip(raw_line) IN
    IF line = << >>
    THEN [do |-> "skip", value |-> Nothing]
    ELSE IF startswith(line, DataPrefix)
         THEN LET parsed == json_loads(SubSeq(line, 7, Len(line))) IN
              IF parsed.ok
              THEN [do |-> "yield", value |-> parsed.value]
              ELSE [do |-> "skip", value |-> Nothing]
         ELSE [do |-> "skip", value |-> Nothing]

\* the loop body ending the stream on a payload that does not parse
decode_line_AbortOnBadJson(raw_line) ==
    LET line == strip(raw_line) IN
    IF line = << >>
    THEN [do |-> "skip", value |-> Nothing]
    ELSE IF startswith(line, DataPrefix)
         THEN LET data_line == SubSeq(line, 7, Len(line)) IN
              IF data_line = Sentinel
              THEN [do |-> "return", value |-> Nothing]
              ELSE LET parsed == json_loads(data_line) IN
                   IF parsed.ok
                   THEN [do |-> "yield", value |-> parsed.value]
                   ELSE [do |-> "return", value |-> Nothing]
         ELSE [do |-> "skip", value |-> Nothing]

\* the loop body without the prefix test
decode_line_NoPrefixTest(raw_line) ==
    LET line == strip(raw_line) IN
    IF line = << >>
    THEN [do |-> "skip", value |-> Nothing]
    ELSE LET data_line == SubSeq(line, 7, Len(line)) IN
         IF data_line = Sentinel
         THEN [do |-> "return", value |-> Nothing]
         ELSE LET parsed == json_loads(data_line) IN
              IF parsed.ok
              THEN [do |-> "yield", value |-> parsed.value]
              ELSE [do |-> "skip", value |-> Nothing]

(***************************************************************************)
(* The body of the for loop of _stream_response on one line: what the      *)
(* line makes the generator do.                                            *)
(***************************************************************************)
decode_line(raw_line) ==
    LET line == strip(raw_line) IN
    IF line = << >>
    THEN [do |-> "skip", value |-> Nothing]
    ELSE IF startswith(line, DataPrefix)
         THEN LET data_line == SubSeq(line, 7, Len(line)) IN
              IF data_line = Sentinel
              THEN [do |-> "return", value |-> Nothing]
              ELSE LET parsed == json_loads(data_line) IN
                   IF parsed.ok
                   THEN [do |-> "yield", value |-> parsed.value]
                   ELSE [do |-> "skip", value |-> Nothing]
         ELSE [do |-> "skip", value |-> Nothing]

(***************************************************************************)
(* _stream_response: client.stream opened a response with status s.        *)
(***************************************************************************)
\* _stream_response with an error mapper that returns: a failed response
\* that is not retried falls through to the line loop
StreamOpens_FallsThrough(c, s) ==
    /\ call[c].pc = "inflight"
    /\ call[c].kind = "stream"
    /\ LET k0 == call[c]
           k  == [k0 EXCEPT !.response = Some(s), !.open = TRUE,
                            !.body_read = FALSE, !.cursor = 0,
                            !.outcomes = Append(@,
                                Outcome(IF s >= 400 THEN "HttpFailure"
                                        ELSE "Success", s))]
       IN call' = [call EXCEPT ![c] =
           IF s >= 400
           THEN IF should_retry("POST", Some(s), None, k.attempt)
                   /\ BudgetRemains(k.attempt)
                THEN [k EXCEPT !.pc = "drain"]
                ELSE [k EXCEPT !.pc = "iter"]
           ELSE [k EXCEPT !.pc = "iter"]]
    /\ UNCHANGED <<client, pure>>

StreamOpens(c, s) ==
    /\ call[c].pc = "inflight"
    /\ call[c].kind = "stream"
    /\ LET k0 == call[c]
           k  == [k0 EXCEPT !.response = Some(s), !.open = TRUE,
                            !.body_read = FALSE, !.cursor = 0,
                            !.outcomes = Append(@,
                                Outcome(IF s >= 400 THEN "HttpFailure"
                                        ELSE "Success", s))]
       IN call' = [call EXCEPT ![c] =
           IF s >= 400
           THEN IF should_retry("POST", Some(s), None, k.attempt)
                   /\ BudgetRemains(k.attempt)
                THEN [k EXCEPT !.pc = "drain"]
                ELSE Finish(k, handle_error_response(s, k.body_read))
           ELSE [k EXCEPT !.pc = "iter"]]
    /\ UNCHANGED <<client, pure>>

(***************************************************************************)
(* The except clause of _stream_response, entered with e; the with block   *)
(* has been left and the response released.                                *)
(***************************************************************************)
StreamExcept(k0, e) ==
    LET k == [k0 EXCEPT !.caught = Some(e), !.open = FALSE] IN
    IF BudgetRemains(k.attempt)
    THEN [k EXCEPT !.pc = "backoff"]
    ELSE Finish(k, Raised("APIError", None, "str(e)"))

(***************************************************************************)
(* _stream_response: client.stream raised httpx.RequestError or            *)
(* httpx.TimeoutException while opening the response.                      *)
(***************************************************************************)
StreamOpenFails(c, e) ==
    /\ call[c].pc = "inflight"
    /\ call[c].kind = "stream"
    /\ LET k == [call[c] EXCEPT
                    !.outcomes = Append(@, Outcome("TransportFailure", 0))]
       IN call' = [call EXCEPT ![c] = StreamExcept(k, e)]
    /\ UNCHANGED <<client, pure>>

(***************************************************************************)
(* _stream_response: client.stream raised an exception the except clause   *)
(* does not name.                                                          *)
(***************************************************************************)
StreamOpenRaises(c, e) ==
    /\ call[c].pc = "inflight"
    /\ call[c].kind = "stream"
    /\ LET k == [call[c] EXCEPT
                    !.outcomes = Append(@, Outcome("OtherException", 0))]
       IN call' = [call EXCEPT ![c] = Finish(k, Raised(e, None, ""))]
    /\ UNCHANGED <<client, pure>>

\* the loop appending to a buffer of events that outlives the pass
ReadLine_KeptBuffer(c) ==
    /\ call[c].pc = "iter"
    /\ call[c].cursor < Len(call[c].lines)
    /\ LET k0 == call[c]
           k  == [k0 EXCEPT !.cursor = k0.cursor + 1]
           d  == decode_line(k0.lines[k0.cursor + 1])
           buffer == CHOOSE b \in {call[o].events : o \in Calls} :
                        \A o \in Calls : Len(call[o].events) <= Len(b)
       IN call' = [call EXCEPT ![c] =
           IF d.do = "return" THEN Finish(k, Returned(k.response[1]))
           ELSE IF d.do = "yield"
                THEN [k EXCEPT !.events = Append(buffer, d.value),
                               !.sources = Append(@, k.cursor)]
                ELSE k]
    /\ UNCHANGED <<client, pure>>

(***************************************************************************)
(* _stream_response: iter_lines() delivers the next line and the loop      *)
(* body runs on it.                                                        *)
(***************************************************************************)
ReadLine(c) ==
    /\ call[c].pc = "iter"
    /\ call[c].cursor < Len(call[c].lines)
    /\ LET k0 == call[c]
           k  == [k0 EXCEPT !.cursor = k0.cursor + 1]
           d  == decode_line(k0.lines[k0.cursor + 1])
       IN call' = [call EXCEPT ![c] =
           IF d.do = "return" THEN Finish(k, Returned(k.response[1]))
           ELSE IF d.do = "yield"
                THEN [k EXCEPT !.events = Append(@, d.value),
                               !.sources = Append(@, k.cursor)]
                ELSE k]
    /\ UNCHANGED <<client, pure>>

(***************************************************************************)
(* _stream_response: iter_lines() is exhausted; the stream ended           *)
(* naturally.                                                              *)
(***************************************************************************)
EndOfLines(c) ==
    /\ call[c].pc = "iter"
    /\ call[c].cursor = Len(call[c].lines)
    /\ call' = [call EXCEPT ![c] = Finish(call[c], Returned(call[c].response[1]))]
    /\ UNCHANGED <<client, pure>>

(***************************************************************************)
(* _stream_response: iter_lines() raises httpx.RequestError or             *)
(* httpx.TimeoutException while the lines of an established stream are     *)
(* read.  The for loop is inside the try block, so the except clause of    *)
(* the retry loop catches it.                                              *)
(***************************************************************************)
ReadFails(c, e) ==
    /\ call[c].pc = "iter"
    /\ LET k0 == call[c]
           k  == [k0 EXCEPT
                    !.read_fails = Append(@, k0.cursor),
                    !.err_nreq = IF @ = None THEN Some(k0.nreq) ELSE @,
                    !.err_events = IF @ = None THEN Some(Len(k0.events)) ELSE @]
       IN call' = [call EXCEPT ![c] = StreamExcept(k, e)]
    /\ UNCHANGED <<client, pure>>

(***************************************************************************)
(* AsyncSynapsAI: the task awaiting the call is cancelled while the call   *)
(* is suspended in an await; asyncio.CancelledError is a BaseException,    *)
(* which no except clause of the executors names.                          *)
(***************************************************************************)
\* CancelledError as a subclass of Exception (Python before 3.8): the
\* `except Exception: pass` around aread() swallows it
Cancel_SwallowedByDrain(c) ==
    /\ call[c].mode = "async"
    /\ call[c].pc \in {"inflight", "drain", "sleeping", "iter"}
    /\ call' = [call EXCEPT ![c] =
           IF call[c].pc = "drain"
           THEN [call[c] EXCEPT !.cancelled = TRUE, !.pc = "backoff"]
           ELSE Finish([call[c] EXCEPT !.cancelled = TRUE],
                       Raised("CancelledError", None, ""))]
    /\ UNCHANGED <<client, pure>>

Cancel(c) ==
    /\ call[c].mode = "async"
    /\ call[c].pc \in {"inflight", "drain", "sleeping", "iter"}
    /\ call' = [call EXCEPT ![c] =
           Finish([call[c] EXCEPT !.cancelled = TRUE],
                  Raised("CancelledError", None, ""))]
    /\ UNCHANGED <<client, pure>>

(***************************************************************************)
(* The lines the transport delivers.                                       *)
(***************************************************************************)
DataLine(payload) == DataPrefix \o payload

\* {"x":1} and {"x":2}
JsonX1 == <<"{", "\"", "x", "\"", ":", "1", "}">>
JsonX2 == <<"{", "\"", "x", "\"", ":", "2", "}">>

LineX1 == DataLine(JsonX1)
LineX2 == DataLine(JsonX2)
LineEmpty == << >>
\* data: [DONE]
LineDone == DataLine(Sentinel)
\* the sentinel line between whitespace
LineDonePadded == <<" ">> \o DataLine(Sentinel) \o <<"\r">>
\* data:  [DONE], two spaces: the payload is not the sentinel
LineDoneTwoSpaces == DataPrefix \o <<" ">> \o Sentinel
\* data: not-json
LineBad == DataLine(<<"n", "o", "t", "-", "j", "s", "o", "n">>)
\* event: 1
LineEvent == <<"e", "v", "e", "n", "t", ":", " ", "1">>
\* data:{"x":1}, no space after the colon
LineNoSpace == <<"d", "a", "t", "a", ":">> \o JsonX1

LineSamples ==
    {LineX1, LineX2, LineEmpty, LineDone, LineDonePadded, LineDoneTwoSpaces,
     LineBad, LineEvent, LineNoSpace}

\* longest input of the decoder, in lines
MaxLines == 3

SeqsUpTo(S, n) == UNION {[1..m -> S] : m \in 0..n}

\* the two inputs the specification works out
ExampleDone == <<LineX1, LineEmpty, LineDone, LineX2>>
ExampleBad == <<LineBad, LineX1>>

DecoderInputs == SeqsUpTo(LineSamples, MaxLines) \cup {ExampleDone, ExampleBad}

\* the response bodies of the streaming calls of the executor
StreamBodies == {<<LineX1, LineX2>>, <<LineX1, LineDone>>}

\* max_retries when the constructor is given none (client.py line 43)
DefaultMaxRetries == 3

(***************************************************************************)
(* Applications of the pure functions.                                     *)
(***************************************************************************)
Idle == [fn |-> "idle"]

\* the status codes _should_retry is applied to
ClassifierStatuses ==
    {100, 200, 399, 400, 401, 403, 404, 428, 429, 430, 499, 500, 503, 599, 600, 601}
\* the attempt indices _should_retry is applied to
MaxAttemptArg == 2

ShouldRetryInputs ==
    [fn : {"should_retry"}, method : Methods,
     response : {None} \cup {Some(s) : s \in ClassifierStatuses},
     exc : {None} \cup {Some(e) : e \in TransportExcs \cup OtherExcs},
     attempt : 0..MaxAttemptArg,
     out : {None}]

ApplyShouldRetry ==
    /\ pure.fn = "should_retry"
    /\ pure.out = None
    /\ pure' = [pure EXCEPT !.out =
           Some(should_retry(pure.method, pure.response, pure.exc, pure.attempt))]
    /\ UNCHANGED <<client, call>>

(***************************************************************************)
(* Spec: one logical call on a constructed client, non-streaming or        *)
(* streaming, blocking or cooperative.                                     *)
(***************************************************************************)
Init ==
    /\ \E v \in RetriesArgs : client = BaseClient_init(v)
    /\ \E mode \in {"sync", "async"} :
          \/ \E method \in Methods :
                call = [c \in {1} |-> NewCall("request", mode, method, << >>)]
          \/ \E lines \in StreamBodies :
                call = [c \in {1} |-> NewCall("stream", mode, "POST", lines)]
    /\ pure = Idle

Next ==
    \E c \in Calls :
        \/ LoopTest(c)
        \/ \E s \in Statuses : Respond(c, s)
        \/ \E e \in TransportExcs : RequestFails(c, e)
        \/ \E e \in OtherExcs : RequestRaises(c, e)
        \/ \E ok \in BOOLEAN : Drain(c, ok)
        \/ \E jitter \in Jitters : Backoff(c, jitter)
        \/ Wake(c)
        \/ Incr(c)
        \/ \E s \in Statuses : StreamOpens(c, s)
        \/ \E e \in TransportExcs : StreamOpenFails(c, e)
        \/ \E e \in OtherExcs : StreamOpenRaises(c, e)
        \/ ReadLine(c)
        \/ EndOfLines(c)
        \/ \E e \in TransportExcs : ReadFails(c, e)
        \/ Cancel(c)

Spec == Init /\ [][Next]_vars

(***************************************************************************)
(* SpecDecode: two decode passes over the same lines, one by the blocking  *)
(* and one by the cooperative client, each on an established stream (a     *)
(* response with status 200 is open and no line has been read).            *)
(***************************************************************************)
Established(mode, lines) ==
    [NewCall("stream", mode, "POST", lines) EXCEPT
        !.pc = "iter", !.nreq = 1, !.response = Some(200), !.open = TRUE,
        !.outcomes = <<Outcome("Success", 200)>>]

InitDecode ==
    /\ client = BaseClient_init(DefaultMaxRetries)
    /\ \E lines \in DecoderInputs :
          call = [c \in {1, 2} |->
                    Established(IF c = 1 THEN "sync" ELSE "async", lines)]
    /\ pure = Idle

NextDecode ==
    \E c \in Calls :
        \/ ReadLine(c)
        \/ EndOfLines(c)

SpecDecode == InitDecode /\ [][NextDecode]_vars

(***************************************************************************)
(* Bodies of a failed response, as _handle_error_response tells them       *)
(* apart: text that is not JSON, a JSON value that is not an object, and   *)
(* an object with an optional "error" member (an object with optional      *)
(* "message" and "error" strings, or a string, a list or null) and an      *)
(* optional "message" string.                                              *)
(***************************************************************************)
NoError == [t |-> "absent", message |-> None, error |-> None]
ErrorObject(message, error) == [t |-> "dict", message |-> message, error |-> error]
ErrorOther(t) == [t |-> t, message |-> None, error |-> None]

BodyNotJson == [shape |-> "not json", error |-> NoError, message |-> None]
BodyValue == [shape |-> "value", error |-> NoError, message |-> None]
BodyObject(error, message) == [shape |-> "object", error |-> error, message |-> message]

ErrorBodies ==
    {BodyNotJson, BodyValue,
     BodyObject(ErrorObject(Some("boom"), None), None),
     BodyObject(ErrorObject(None, Some("inner")), None),
     BodyObject(ErrorObject(Some("boom"), Some("inner")), Some("top")),
     BodyObject(ErrorObject(Some(""), Some("inner")), None),
     BodyObject(ErrorObject(None, None), None),
     BodyObject(ErrorOther("str"), None),
     BodyObject(ErrorOther("list"), Some("top")),
     BodyObject(ErrorOther("null"), None),
     BodyObject(NoError, Some("top")),
     BodyObject(NoError, Some("")),
     BodyObject(NoError, None)}

\* the messages that are not taken from a member of the body
StatusLine == "HTTP <status>: <text>"
StrOfErr == "str(err)"
StrOfData == "str(error_data)"

\* Python's `x or y` on an optional string: None and "" are false
Truthy(v) == v # None /\ v[1] # ""
OrElse(v, w) == IF Truthy(v) THEN v[1] ELSE w

(***************************************************************************)
(* _handle_error_response, the try block: the exception it ends with ("",  *)
(* if none) and the message it has assigned.  response.json() raises on a  *)
(* body that was not read or is not JSON; err.get raises AttributeError on *)
(* a string, a list or None; the raise APIError of the structured format   *)
(* is a statement of the try block.                                        *)
(***************************************************************************)
handle_error_try(body, body_read) ==
    IF ~body_read THEN [exc |-> "ResponseNotRead", message |-> ""]
    ELSE IF body.shape = "not json" THEN [exc |-> "JSONDecodeError", message |-> ""]
    ELSE IF body.shape = "object" /\ body.error.t # "absent"
    THEN IF body.error.t = "dict"
         THEN [exc |-> "APIError",
               message |-> OrElse(body.error.message,
                                  OrElse(body.error.error, StrOfErr))]
         ELSE [exc |-> "AttributeError", message |-> ""]
    ELSE IF body.shape = "object"
    THEN [exc |-> "", message |-> OrElse(body.message, StrOfData)]
    ELSE [exc |-> "", message |-> StrOfData]

\* _handle_error_response with `except json.JSONDecodeError` in place of
\* `except Exception`
handle_error_message_NarrowExcept(status, body, body_read) ==
    LET t == handle_error_try(body, body_read) IN
    IF t.exc = "JSONDecodeError"
    THEN Raised("APIError", Some(status), StatusLine)
    ELSE IF t.exc = "APIError" \/ t.exc = ""
    THEN Raised("APIError", Some(status), t.message)
    ELSE Raised(t.exc, None, "")

(***************************************************************************)
(* _handle_error_response on a response with the given status and body:    *)
(* what it raises.  `except Exception` catches whatever the try block      *)
(* raised, its own APIError included, and builds the status-line message   *)
(* from response.text, which raises again on a body that was not read.     *)
(***************************************************************************)
handle_error_message(status, body, body_read) ==
    LET t == handle_error_try(body, body_read) IN
    IF t.exc # ""
    THEN IF body_read
         THEN Raised("APIError", Some(status), StatusLine)
         ELSE Raised("ResponseNotRead", None, "")
    ELSE Raised("APIError", Some(status), t.message)

\* the status codes _handle_error_response is applied to
ErrorStatuses == {400, 401, 404, 429, 500}

HandleErrorInputs ==
    [fn : {"handle_error_response"}, status : ErrorStatuses,
     body : ErrorBodies, body_read : BOOLEAN, out : {None}]

ApplyHandleError ==
    /\ pure.fn = "handle_error_response"
    /\ pure.out = None
    /\ pure' = [pure EXCEPT !.out =
           Some(handle_error_message(pure.status, pure.body, pure.body_read))]
    /\ UNCHANGED <<client, call>>

(***************************************************************************)
(* _backoff_delay as a call: `base * (2 ** attempt)` multiplies a float by *)
(* an integer of any size, which Python first converts to a float; the     *)
(* conversion raises OverflowError from 2 ** 1024 on.  The result is the   *)
(* exception raised ("" if none) and the delay returned.                   *)
(***************************************************************************)
FloatMaxExp == 1024

backoff_delay_call(attempt, jitter) ==
    IF attempt >= FloatMaxExp
    THEN [exc |-> "OverflowError", delay |-> None]
    ELSE [exc |-> "", delay |-> Some(backoff_delay(attempt, jitter))]

\* the attempt indices and jitter values _backoff_delay is applied to
MaxBackoffAttempt == 7
BackoffAttempts == 0..MaxBackoffAttempt \cup {FloatMaxExp}
BackoffJitters == {0, 1, 250, 499, 500}

BackoffInputs ==
    [fn : {"backoff_delay"}, attempt : BackoffAttempts,
     jitter : BackoffJitters, out : {None}]

ApplyBackoffDelay ==
    /\ pure.fn = "backoff_delay"
    /\ pure.out = None
    /\ pure' = [pure EXCEPT !.out =
           Some(backoff_delay_call(pure.attempt, pure.jitter))]
    /\ UNCHANGED <<client, call>>

(***************************************************************************)
(* URLs.  A URL part is a sequence of one-character strings.               *)
(* str.rstrip("/") and str.lstrip("/"); utils.build_url; the URL each      *)
(* executor entry point requests: _request (blocking and cooperative) and  *)
(* the cooperative _stream_response call build_url, the blocking           *)
(* _stream_response concatenates self.base_url and the endpoint.           *)
(***************************************************************************)
Slash == "/"

RECURSIVE lstrip_slash(_)
lstrip_slash(s) ==
    IF s # << >> /\ Head(s) = Slash THEN lstrip_slash(Tail(s)) ELSE s

RECURSIVE rstrip_slash(_)
rstrip_slash(s) ==
    IF s # << >> /\ s[Len(s)] = Slash
    THEN rstrip_slash(SubSeq(s, 1, Len(s) - 1))
    ELSE s

build_url(base, endpoint) ==
    rstrip_slash(base) \o <<Slash>> \o lstrip_slash(endpoint)

\* self.base_url as BaseClient.__init__ stores it
stored_base_url(base_url) == rstrip_slash(base_url)

request_url(kind, mode, base_url, endpoint) ==
    IF kind = "stream" /\ mode = "sync"
    THEN base_url \o endpoint
    ELSE build_url(base_url, endpoint)

\* the base URLs passed to the constructor and the endpoints passed to the
\* executors ("chat/completions" is what the chat resource passes)
BaseUrls == {<<"h">>, <<"h", "/">>, <<"h", "/", "/">>, <<"h", "/", "v">>,
             <<"h", "/", "v", "/">>}
Endpoints == {<<"e">>, <<"/", "e">>, <<"/", "/", "e">>, <<"e", "/", "f">>,
              <<"/", "e", "/", "f">>, <<"e", "/">>}

UrlInputs ==
    [fn : {"request_url"}, kind : {"request", "stream"},
     mode : {"sync", "async"}, base_url : BaseUrls, endpoint : Endpoints,
     out : {None}]

ApplyRequestUrl ==
    /\ pure.fn = "request_url"
    /\ pure.out = None
    /\ pure' = [pure EXCEPT !.out =
           Some(request_url(pure.kind, pure.mode,
                            stored_base_url(pure.base_url), pure.endpoint))]
    /\ UNCHANGED <<client, call>>

(***************************************************************************)
(* SpecPure: the pure functions of BaseClient applied to their inputs.     *)
(***************************************************************************)
InitPure ==
    /\ client = BaseClient_init(DefaultMaxRetries)
    /\ call = << >>
    /\ pure \in ShouldRetryInputs \cup HandleErrorInputs \cup BackoffInputs
                \cup UrlInputs

NextPure ==
    \/ ApplyShouldRetry
    \/ ApplyHandleError
    \/ ApplyBackoffDelay
    \/ ApplyRequestUrl

SpecPure == InitPure /\ [][NextPure]_vars

(***************************************************************************)
(* FairSpec: Spec in which a call that can take a step eventually takes    *)
(* one: the thread or task of a call runs on, every attempt ends within    *)
(* the configured timeout, and every sleep is finite.                      *)
(***************************************************************************)
InitRequest ==
    /\ \E v \in RetriesArgs : client = BaseClient_init(v)
    /\ \E mode \in {"sync", "async"}, method \in Methods :
          call = [c \in {1} |-> NewCall("request", mode, method, << >>)]
    /\ pure = Idle

NextRequest ==
    \E c \in Calls :
        \/ LoopTest(c)
        \/ \E s \in Statuses : Respond(c, s)
        \/ \E e \in TransportExcs : RequestFails(c, e)
        \/ \E e \in OtherExcs : RequestRaises(c, e)
        \/ \E ok \in BOOLEAN : Drain(c, ok)
        \/ \E jitter \in Jitters : Backoff(c, jitter)
        \/ Wake(c)
        \/ Incr(c)
        \/ Cancel(c)

FairSpec == InitRequest /\ [][NextRequest]_vars /\ WF_vars(NextRequest)

(***************************************************************************)
(* Construction of a client: SynapsAI(...) / AsyncSynapsAI(...).  The      *)
(* arguments (api_key, max_retries, httpx_client given or not), the value  *)
(* of the environment variable SYNAPSAI_API_KEY and the position in the    *)
(* constructor are kept in `pure`; `client` is None until                  *)
(* BaseClient.__init__ has stored the configuration.  transport tells      *)
(* whether self._client is unset ("none"), the httpx_client argument       *)
(* ("given") or a handle created by the constructor ("created").           *)
(***************************************************************************)
ApiKeys == {None, Some("key")}

ConstructInputs ==
    [fn : {"construct"}, mode : {"sync", "async"},
     api_key : ApiKeys, env_key : ApiKeys,
     max_retries : RetriesArgs, httpx_client : BOOLEAN,
     pc : {"base"}, exc : {None}, transport : {"none"}]

\* BaseClient.__init__ without the test of the API key
BaseInit_NoKeyCheck ==
    /\ pure.fn = "construct"
    /\ pure.pc = "base"
    /\ client' = BaseClient_init(pure.max_retries)
    /\ pure' = [pure EXCEPT !.pc = "sub",
                   !.transport = IF pure.httpx_client THEN "given" ELSE "none"]
    /\ UNCHANGED call

\* BaseClient.__init__, entered through super().__init__
BaseInit ==
    /\ pure.fn = "construct"
    /\ pure.pc = "base"
    /\ LET api_key == IF pure.api_key = None THEN pure.env_key ELSE pure.api_key
       IN IF api_key = None
          THEN /\ pure' = [pure EXCEPT !.pc = "raised",
                              !.exc = Some("AuthenticationError")]
               /\ UNCHANGED client
          ELSE /\ client' = BaseClient_init(pure.max_retries)
               /\ pure' = [pure EXCEPT !.pc = "sub",
                              !.transport = IF pure.httpx_client THEN "given"
                                            ELSE "none"]
    /\ UNCHANGED call

\* SynapsAI.__init__ / AsyncSynapsAI.__init__ after super().__init__: the
\* transport handle is created unless one was passed
SubInit ==
    /\ pure.fn = "construct"
    /\ pure.pc = "sub"
    /\ pure' = [pure EXCEPT !.pc = "done",
                   !.transport = IF @ = "none" THEN "created" ELSE @]
    /\ UNCHANGED <<client, call>>

\* a call to _request on the constructed client
EnterCall ==
    /\ pure.fn = "construct"
    /\ pure.pc = "done"
    /\ call = << >>
    /\ \E method \in Methods :
          call' = [c \in {1} |-> NewCall("request", pure.mode, method, << >>)]
    /\ UNCHANGED <<client, pure>>

(***************************************************************************)
(* SpecConstruct: a client is constructed from its arguments and the       *)
(* environment and, once constructed, serves one call to _request.         *)
(***************************************************************************)
InitConstruct ==
    /\ client = None
    /\ call = << >>
    /\ pure \in ConstructInputs

NextConstruct ==
    \/ BaseInit
    \/ SubInit
    \/ EnterCall
    \/ NextRequest

SpecConstruct == InitConstruct /\ [][NextConstruct]_vars

(***************************************************************************)
(* SpecReplay: the blocking executor (call 1) runs a call to its end; the  *)
(* cooperative executor (call 2) is then given the same call on the same   *)
(* client and the same outcome for each of its attempts: the outcomes of   *)
(* call 1 in their order and, for a stream, a failure of reading lines     *)
(* where call 1 had one.  The jitter and the success of draining a failed  *)
(* response stay free.  Cancellation is no outcome of an attempt and is    *)
(* left out.                                                               *)
(***************************************************************************)
\* the lines of every response body of the replayed stream
ReplayBody == <<LineX1, LineDone>>

InitReplay ==
    /\ \E v \in RetriesArgs : client = BaseClient_init(v)
    /\ \/ \E method \in Methods :
             call = [c \in {1, 2} |-> NewCall("request",
                        IF c = 1 THEN "sync" ELSE "async", method, << >>)]
       \/ call = [c \in {1, 2} |-> NewCall("stream",
                        IF c = 1 THEN "sync" ELSE "async", "POST", ReplayBody)]
    /\ pure = Idle

Step(c) ==
    \/ LoopTest(c)
    \/ \E s \in Statuses : Respond(c, s)
    \/ \E e \in TransportExcs : RequestFails(c, e)
    \/ \E e \in OtherExcs : RequestRaises(c, e)
    \/ \E ok \in BOOLEAN : Drain(c, ok)
    \/ \E jitter \in Jitters : Backoff(c, jitter)
    \/ Wake(c)
    \/ Incr(c)
    \/ \E s \in Statuses : StreamOpens(c, s)
    \/ \E e \in TransportExcs : StreamOpenFails(c, e)
    \/ \E e \in OtherExcs : StreamOpenRaises(c, e)
    \/ ReadLine(c)
    \/ EndOfLines(c)
    \/ \E e \in TransportExcs : ReadFails(c, e)

\* call 1 had a failure of reading lines where call 2 now reads
ReadFailureDue ==
    /\ call[2].pc = "iter"
    /\ Len(call[2].read_fails) < Len(call[1].read_fails)
    /\ call[1].read_fails[Len(call[2].read_fails) + 1] = call[2].cursor

\* the step gives call 2 the outcome call 1 had
SameOutcome ==
    /\ Len(call'[2].outcomes) <= Len(call[1].outcomes)
    /\ call'[2].outcomes = SubSeq(call[1].outcomes, 1, Len(call'[2].outcomes))
    /\ Len(call'[2].read_fails) <= Len(call[1].read_fails)
    /\ call'[2].read_fails
          = SubSeq(call[1].read_fails, 1, Len(call'[2].read_fails))
    /\ ReadFailureDue => Len(call'[2].read_fails) > Len(call[2].read_fails)

First == call[1].pc # "done" /\ Step(1)
Second == call[1].pc = "done" /\ Step(2) /\ SameOutcome

NextReplay ==
    \/ First
    \/ Second

SpecReplay == InitReplay /\ [][NextReplay]_vars

(***************************************************************************)
(* SpecConc: two logical calls in progress at once on one client (two      *)
(* threads on a SynapsAI, two tasks on an AsyncSynapsAI), their steps      *)
(* interleaved in every order: a call to _request next to a call to        *)
(* _request or to _stream_response.                                        *)
(***************************************************************************)
\* largest max_retries of the client the concurrent calls share
MaxConcRetries == 3

InitConc ==
    /\ \E v \in 1..MaxConcRetries : client = BaseClient_init(v)
    /\ \E mode \in {"sync", "async"} :
          \/ call = [c \in {1, 2} |->
                        NewCall("request", mode,
                                IF c = 1 THEN "GET" ELSE "POST", << >>)]
          \/ call = [c \in {1, 2} |->
                        IF c = 1 THEN NewCall("request", mode, "GET", << >>)
                        ELSE NewCall("stream", mode, "POST", ReplayBody)]
    /\ pure = Idle

\* the outcomes the transport gives the concurrent calls: a success, a
\* failure that is not retried, one that is, and a transport error
ConcStatuses == {200, 400, 503}
ConcExcs == {"RequestError"}

NextConc ==
    \E c \in Calls :
        \/ LoopTest(c)
        \/ \E s \in ConcStatuses : Respond(c, s)
        \/ \E e \in ConcExcs : RequestFails(c, e)
        \/ \E e \in OtherExcs : RequestRaises(c, e)
        \/ \E ok \in BOOLEAN : Drain(c, ok)
        \/ Backoff(c, 0)
        \/ Wake(c)
        \/ Incr(c)
        \/ \E s \in ConcStatuses : StreamOpens(c, s)
        \/ \E e \in ConcExcs : StreamOpenFails(c, e)
        \/ \E e \in OtherExcs : StreamOpenRaises(c, e)
        \/ ReadLine(c)
        \/ EndOfLines(c)
        \/ \E e \in ConcExcs : ReadFails(c, e)
        \/ Cancel(c)

SpecConc == InitConc /\ [][NextConc]_vars

(***************************************************************************)
(* Vocabulary of the properties.                                           *)
(***************************************************************************)
IsRequest(k) == k.kind = "request"
IsStream(k) == k.kind = "stream"
Done(k) == k.pc = "done"
Cancelled(k) == Done(k) /\ k.results[1].exc = "CancelledError"

RetryableOutcome(o) ==
    \/ o.tag = "TransportFailure"
    \/ o.tag = "HttpFailure" /\ (o.status = 429 \/ o.status \in 500..599)
FailureOutcome(o) == o.tag \in {"TransportFailure", "HttpFailure"}
AllRetryable(outcomes) ==
    \A i \in 1..Len(outcomes) : RetryableOutcome(outcomes[i])
LastOutcome(k) == k.outcomes[Len(k.outcomes)]

(***************************************************************************)
(* C1: one call to _request (sync or async), whatever the outcomes of its  *)
(* attempts, issues at most max_retries HTTP requests, and once it has     *)
(* ended it has issued at least one.                                       *)
(***************************************************************************)
C1_RequestCount ==
    \A c \in Calls :
        IsRequest(call[c]) =>
            /\ client.max_retries >= 1
            /\ call[c].nreq <= client.max_retries
            /\ Len(call[c].outcomes) <= call[c].nreq
            /\ Done(call[c]) => call[c].nreq >= 1

\* a call that used its whole budget of at least two attempts
C1_Witness ==
    \E c \in Calls :
        /\ IsRequest(call[c]) /\ Done(call[c])
        /\ client.max_retries >= 2
        /\ call[c].nreq = client.max_retries
        /\ \A i \in 1..Len(call[c].outcomes) :
              call[c].outcomes[i].tag \in {"Success", "HttpFailure", "TransportFailure"}

(***************************************************************************)
(* C2, as stated: every call to _request ends with exactly one terminal    *)
(* result, which is a returned response with status < 400 or one raised    *)
(* APIError.                                                               *)
(***************************************************************************)
C2_OnlySuccessOrAPIError ==
    \A c \in Calls :
        IsRequest(call[c]) =>
            /\ Len(call[c].results) <= 1
            /\ Done(call[c]) =>
                  /\ Len(call[c].results) = 1
                  /\ \/ /\ call[c].results[1].type = "return"
                        /\ call[c].results[1].status[1] < 400
                     \/ /\ call[c].results[1].type = "raise"
                        /\ call[c].results[1].exc = "APIError"

(***************************************************************************)
(* C2, amended: every call to _request terminates, with exactly one        *)
(* terminal result and none before it ends.  The result is a returned      *)
(* response with status < 400 when the last attempt answered with one, and *)
(* one APIError when the last attempt was an HTTP failure or a transport   *)
(* or timeout failure; an exception of another kind raised by the          *)
(* transport, and the cancellation of the awaiting task, end the call with *)
(* that exception itself.  No response with status >= 400 is returned.     *)
(***************************************************************************)
C2_TerminalResult(k) ==
    /\ Len(k.results) <= 1
    /\ ~Done(k) => k.results = << >>
    /\ Done(k) =>
          /\ Len(k.results) = 1
          /\ LET r == k.results[1] IN
             \/ /\ r.type = "return"
                /\ r.status[1] < 400
                /\ LastOutcome(k) = Outcome("Success", r.status[1])
             \/ /\ r.type = "raise" /\ r.exc = "APIError"
                /\ FailureOutcome(LastOutcome(k))
             \/ /\ r.type = "raise" /\ r.exc \in OtherExcs
                /\ LastOutcome(k).tag = "OtherException"
             \/ /\ r.type = "raise" /\ r.exc = "CancelledError"
                /\ k.mode = "async"

C2_ExactlyOneTerminalResult ==
    /\ [](\A c \in Calls : IsRequest(call[c]) => C2_TerminalResult(call[c]))
    /\ <>(\A c \in Calls : Done(call[c]))

\* a call that absorbed a retryable failure and then failed with an APIError
C2_Witness ==
    \E c \in Calls :
        /\ IsRequest(call[c]) /\ Done(call[c])
        /\ Len(call[c].outcomes) >= 2
        /\ call[c].results[1].exc = "APIError"

(***************************************************************************)
(* C3: while every attempt of a call to _request that is not cancelled     *)
(* yields a retryable failure (429, 5xx, transport failure), the k-th      *)
(* sleep follows the k-th failure with attempt index k-1 and precedes the  *)
(* next request; with max_retries = N the call ends after exactly N        *)
(* attempts and N-1 sleeps by raising an APIError that carries the status  *)
(* of the last response, if the last attempt had one.                      *)
(***************************************************************************)
C3_ExhaustedRetries ==
    \A c \in Calls :
        LET k == call[c]
            N == client.max_retries IN
        (IsRequest(k) /\ AllRetryable(k.outcomes) /\ ~Cancelled(k)) =>
            /\ k.nreq <= N
            /\ Len(k.sleeps) <= Len(k.outcomes)
            /\ k.nreq <= Len(k.sleeps) + 1
            /\ k.sleeps = [i \in 1..Len(k.sleeps) |-> i - 1]
            /\ Done(k) =>
                  /\ k.nreq = N
                  /\ Len(k.outcomes) = N
                  /\ Len(k.sleeps) = N - 1
                  /\ k.results[1].type = "raise"
                  /\ k.results[1].exc = "APIError"
                  /\ LastOutcome(k).tag = "HttpFailure" =>
                        k.results[1].status = Some(LastOutcome(k).status)

\* max_retries = 3 and three 503 responses
C3_Witness ==
    \E c \in Calls :
        /\ IsRequest(call[c]) /\ Done(call[c])
        /\ client.max_retries = 3
        /\ call[c].outcomes = [i \in 1..3 |-> Outcome("HttpFailure", 503)]
        /\ call[c].sleeps = <<0, 1>>
        /\ call[c].results = <<Raised("APIError", Some(503), "from response")>>

(***************************************************************************)
(* C4: with max_retries = 1 a call to _request never sleeps and never      *)
(* prepares a retry, and a first attempt that fails (4xx, 429, 5xx,        *)
(* transport failure) ends the call at once with a raised error after      *)
(* exactly one request.                                                    *)
(***************************************************************************)
C4_SingleAttempt ==
    \A c \in Calls :
        LET k == call[c] IN
        (IsRequest(k) /\ client.max_retries = 1) =>
            /\ k.sleeps = << >>
            /\ k.pc \notin {"drain", "backoff", "sleeping", "incr"}
            /\ k.nreq <= 1
            /\ (k.outcomes # << >> /\ FailureOutcome(k.outcomes[1])) =>
                  /\ Done(k)
                  /\ k.nreq = 1
                  /\ k.results[1].type = "raise"

\* max_retries = 1 and a first attempt that failed with a retryable outcome
C4_Witness ==
    \E c \in Calls :
        /\ IsRequest(call[c]) /\ Done(call[c])
        /\ client.max_retries = 1
        /\ call[c].outcomes # << >>
        /\ RetryableOutcome(call[c].outcomes[1])
        /\ call[c].results[1].type = "raise"

(***************************************************************************)
(* C5: _should_retry equals the table of the classifier: an exception      *)
(* decides alone (true exactly for a transport or timeout error, whatever  *)
(* the response); without an exception a response retries exactly on 429   *)
(* and on 500..599; nothing given does not retry.  Method and attempt      *)
(* index have no influence.                                                *)
(***************************************************************************)
RetryTable(response, exc) ==
    CASE exc # None /\ exc[1] \in {"RequestError", "TimeoutException"} -> TRUE
      [] exc # None -> FALSE
      [] response # None /\ response[1] = 429 -> TRUE
      [] response # None /\ response[1] \in 500..599 -> TRUE
      [] OTHER -> FALSE

C5_ClassifierTable ==
    (pure.fn = "should_retry" /\ pure.out # None) =>
        pure.out[1] = RetryTable(pure.response, pure.exc)

\* the classifier applied to a 599 on a late attempt of a GET
C5_Witness ==
    /\ pure.fn = "should_retry" /\ pure.out # None
    /\ pure.method = "GET" /\ pure.attempt = MaxAttemptArg
    /\ pure.response = Some(599) /\ pure.exc = None
    /\ pure.out = Some(TRUE)

(***************************************************************************)
(* C6, as stated: in _stream_response, once reading the lines of an        *)
(* established stream has failed with a transport error, the call has      *)
(* ended by raising that very error, it has issued no HTTP request since,  *)
(* and it has yielded no event since.                                      *)
(***************************************************************************)
C6_ReadErrorPropagatesUnretried ==
    \A c \in Calls :
        LET k == call[c] IN
        (IsStream(k) /\ k.err_nreq # None) =>
            /\ Done(k)
            /\ k.results[1].type = "raise"
            /\ k.results[1].exc \in TransportExcs
            /\ k.nreq = k.err_nreq[1]
            /\ Len(k.events) = k.err_events[1]

(***************************************************************************)
(* The decoder of the specification, written as a filter over the lines.   *)
(***************************************************************************)
HasDataPrefix(t) ==
    /\ Len(t) >= 6
    /\ \A i \in 1..6 : t[i] = DataPrefix[i]
PayloadOf(l) ==
    LET t == strip(l) IN [i \in 1..(Len(t) - 6) |-> t[i + 6]]
IsSentinelLine(l) == HasDataPrefix(strip(l)) /\ PayloadOf(l) = Sentinel
IsDataLine(l) == strip(l) # << >> /\ HasDataPrefix(strip(l))
WellFormed(l) == IsDataLine(l) /\ ~IsSentinelLine(l) /\ json_loads(PayloadOf(l)).ok
Malformed(l) == IsDataLine(l) /\ ~IsSentinelLine(l) /\ ~json_loads(PayloadOf(l)).ok

\* index of the first sentinel line, Len(lines) + 1 if there is none
FirstSentinel(lines) ==
    IF \E i \in 1..Len(lines) : IsSentinelLine(lines[i])
    THEN CHOOSE i \in 1..Len(lines) :
            /\ IsSentinelLine(lines[i])
            /\ \A j \in 1..(i - 1) : ~IsSentinelLine(lines[j])
    ELSE Len(lines) + 1

RECURSIVE ParsedPayloads(_)
ParsedPayloads(ls) ==
    IF ls = << >> THEN << >>
    ELSE (IF WellFormed(Head(ls))
          THEN <<json_loads(PayloadOf(Head(ls))).value>>
          ELSE << >>) \o ParsedPayloads(Tail(ls))

ReferenceEvents(lines) ==
    ParsedPayloads(SubSeq(lines, 1, FirstSentinel(lines) - 1))

IsPrefix(s, t) == Len(s) <= Len(t) /\ s = SubSeq(t, 1, Len(s))

EventX1 == JsonObject("x", 1)
EventX2 == JsonObject("x", 2)

(***************************************************************************)
(* C7: the decoder stops at the first line whose payload is [DONE]: it     *)
(* reads no line after that line, yields no event from that line or a      *)
(* later one, and ends there normally.  For the lines data: {"x":1},       *)
(* empty, data: [DONE], data: {"x":2} it yields exactly {"x":1}.           *)
(***************************************************************************)
C7_StopsAtSentinel ==
    \A c \in Calls :
        LET k == call[c]
            first == FirstSentinel(k.lines) IN
        /\ first <= Len(k.lines) =>
              /\ k.cursor <= first
              /\ \A j \in 1..Len(k.sources) : k.sources[j] < first
              /\ k.cursor = first =>
                    Done(k) /\ k.results[1].type = "return"
              /\ Done(k) => k.cursor = first
        /\ (k.lines = ExampleDone /\ Done(k)) => k.events = <<EventX1>>

\* the worked input, decoded to its end
C7_Witness ==
    \E c \in Calls :
        /\ call[c].lines = ExampleDone
        /\ Done(call[c])
        /\ call[c].cursor = 3
        /\ call[c].events = <<EventX1>>

(***************************************************************************)
(* C8: a data line whose payload is not JSON neither raises nor ends the   *)
(* stream: a pass ends only normally, at a sentinel line or at the end of  *)
(* the input, and has then yielded every well-formed data line that        *)
(* follows a malformed one and precedes the first sentinel.  For the lines *)
(* data: not-json, data: {"x":1} it yields exactly {"x":1}.                *)
(***************************************************************************)
C8_MalformedSkipped ==
    \A c \in Calls :
        LET k == call[c] IN
        /\ Done(k) =>
              /\ k.results[1].type = "return"
              /\ \/ k.cursor = Len(k.lines)
                 \/ IsSentinelLine(k.lines[k.cursor])
              /\ \A i, j \in 1..Len(k.lines) :
                    (/\ i < j /\ j < FirstSentinel(k.lines)
                     /\ Malformed(k.lines[i]) /\ WellFormed(k.lines[j])) =>
                        \E n \in 1..Len(k.sources) :
                            /\ k.sources[n] = j
                            /\ k.events[n] = json_loads(PayloadOf(k.lines[j])).value
        /\ (k.lines = ExampleBad /\ Done(k)) => k.events = <<EventX1>>

\* the worked input, decoded to its end
C8_Witness ==
    \E c \in Calls :
        /\ call[c].lines = ExampleBad
        /\ Done(call[c])
        /\ call[c].cursor = 2
        /\ call[c].events = <<EventX1>>

(***************************************************************************)
(* C9: a finished pass has yielded exactly the parsed payloads of the      *)
(* well-formed data lines before the first sentinel line (a line being     *)
(* classified after trimming), one event per line in input order, and an   *)
(* unfinished pass a prefix of them; an input without sentinel is read to  *)
(* its end and the pass ends normally.                                     *)
(***************************************************************************)
C9_MatchesReference ==
    \A c \in Calls :
        LET k == call[c] IN
        /\ IsPrefix(k.events, ReferenceEvents(k.lines))
        /\ Len(k.sources) = Len(k.events)
        /\ \A n \in 1..(Len(k.sources) - 1) : k.sources[n] < k.sources[n + 1]
        /\ Done(k) =>
              /\ k.events = ReferenceEvents(k.lines)
              /\ k.results[1].type = "return"
              /\ FirstSentinel(k.lines) > Len(k.lines) => k.cursor = Len(k.lines)

\* an input without sentinel, with a line of another field, a padded data
\* line's neighbours and a malformed line, read to its end
C9_Witness ==
    \E c \in Calls :
        /\ call[c].lines = <<LineEvent, LineX2, LineBad>>
        /\ Done(call[c])
        /\ call[c].events = <<EventX2>>

KindOf(r) ==
    CASE r.exc = "AuthenticationError" -> "Authentication"
      [] r.exc = "RateLimitError" -> "RateLimit"
      [] r.exc = "APIError" /\ r.status = None -> "Transport"
      [] r.exc = "APIError" /\ r.status # None /\ r.status[1] \in 500..599
            -> "ServerError"
      [] OTHER -> "Unknown"

\* the kind the final outcome of a failed call asks for
KindOfOutcome(o) ==
    CASE o.tag = "TransportFailure" -> "Transport"
      [] o.tag = "HttpFailure" /\ o.status \in {401, 403} -> "Authentication"
      [] o.tag = "HttpFailure" /\ o.status = 429 -> "RateLimit"
      [] o.tag = "HttpFailure" /\ o.status \in 500..599 -> "ServerError"
      [] OTHER -> "Unknown"

(***************************************************************************)
(* C11: the error that ends a failed call to _request has the kind its     *)
(* final outcome decides: Authentication for status 401 or 403, RateLimit  *)
(* for 429, ServerError for 5xx, Unknown for any other status, Transport   *)
(* for a transport exception.  (The code raises a plain APIError for 401   *)
(* and 429.)                                                               *)
(***************************************************************************)
C11_KindFromFinalOutcome ==
    \A c \in Calls :
        LET k == call[c] IN
        (IsRequest(k) /\ Done(k) /\ k.results[1].type = "raise"
            /\ k.outcomes # << >> /\ FailureOutcome(LastOutcome(k)))
        => KindOf(k.results[1]) = KindOfOutcome(LastOutcome(k))

\* the body carries the structured format: an "error" object with a
\* "message" or a nested "error" string to take the message from
HasErrorField(body) ==
    /\ body.shape = "object"
    /\ body.error.t = "dict"
    /\ Truthy(body.error.message) \/ Truthy(body.error.error)
ErrorFieldOf(body) == OrElse(body.error.message, body.error.error[1])

(***************************************************************************)
(* C12: when the body of the failed response is a JSON object whose        *)
(* "error" member is an object with a "message" (or a nested "error"       *)
(* string), the message of the raised error is that value; the message is  *)
(* the fallback "HTTP <status>: <body text>" only when no such field can   *)
(* be extracted.  (The code raises the fallback message for these bodies.) *)
(***************************************************************************)
C12_MessageFromErrorField ==
    (pure.fn = "handle_error_response" /\ pure.out # None /\ pure.body_read)
    => /\ HasErrorField(pure.body)
            => pure.out[1].msg = ErrorFieldOf(pure.body)
       /\ pure.out[1].msg = StatusLine => ~HasErrorField(pure.body)

(***************************************************************************)
(* C13: _handle_error_response applied to a response whose body has been   *)
(* read raises an APIError, and nothing else, whose status_code is the     *)
(* status of the response, whatever the body: not JSON, JSON that is not   *)
(* an object, an object whose "error" is an object, a string, a list or    *)
(* null, an object with no "error"; a body that is not JSON gives the      *)
(* status-line message.                                                    *)
(***************************************************************************)
C13_AlwaysOneAPIError ==
    (pure.fn = "handle_error_response" /\ pure.out # None /\ pure.body_read)
    => /\ pure.out[1].type = "raise"
       /\ pure.out[1].exc = "APIError"
       /\ pure.out[1].status = Some(pure.status)
       /\ pure.body.shape = "not json" => pure.out[1].msg = StatusLine

\* applied to an object whose "error" is a string, on which err.get raises
C13_Witness ==
    /\ pure.fn = "handle_error_response"
    /\ pure.out # None
    /\ pure.body_read
    /\ pure.body = BodyObject(ErrorOther("str"), None)
    /\ pure.out[1].exc = "APIError"

(***************************************************************************)
(* C14: the error that ends a failed call to _request describes the last   *)
(* outcome the call observed: after a final HTTP failure it is an APIError *)
(* with the status code of that response; after a final transport failure  *)
(* it is an APIError with no status code, also when an earlier attempt of  *)
(* the call was answered with an HTTP failure.  (A cancelled call ends     *)
(* with the cancellation, which is no outcome of an attempt.)              *)
(***************************************************************************)
C14_ErrorDescribesLastOutcome ==
    \A c \in Calls :
        LET k == call[c] IN
        (IsRequest(k) /\ Done(k) /\ ~Cancelled(k) /\ k.outcomes # << >>
            /\ FailureOutcome(LastOutcome(k)))
        => /\ k.results[1].type = "raise"
           /\ k.results[1].exc = "APIError"
           /\ LastOutcome(k).tag = "HttpFailure"
                 => k.results[1].status = Some(LastOutcome(k).status)
           /\ LastOutcome(k).tag = "TransportFailure"
                 => k.results[1].status = None

\* a 503 answer, a retry, then a transport failure that ends the call
C14_Witness ==
    \E c \in Calls :
        LET k == call[c] IN
        /\ IsRequest(k)
        /\ Done(k)
        /\ Len(k.outcomes) = 2
        /\ k.outcomes[1] = Outcome("HttpFailure", 503)
        /\ k.outcomes[2].tag = "TransportFailure"
        /\ k.results = <<Raised("APIError", None, "str(e)")>>

\* min(0.5 * 2^a, 30.0) in milliseconds; 2^a is past the cap from a = 6 on
JitterFree(a) == IF a >= 6 THEN BackoffCap ELSE Min(BackoffBase * Pow2(a), BackoffCap)

(***************************************************************************)
(* C15: for every attempt index a >= 0 and every jitter in [0, 0.5] s,     *)
(* _backoff_delay(a) returns a delay with 0 <= delay <= 30.0 s and         *)
(* delay >= min(0.5 * 2^a, 30.0), and min(0.5 * 2^a, 30.0) does not        *)
(* decrease in a.  (The code raises OverflowError for a >= 1024.)          *)
(***************************************************************************)
C15_BackoffBounds ==
    (pure.fn = "backoff_delay" /\ pure.out # None)
    => /\ pure.out[1].exc = ""
       /\ pure.out[1].delay # None
       /\ 0 <= pure.out[1].delay[1]
       /\ pure.out[1].delay[1] <= BackoffCap
       /\ pure.out[1].delay[1] >= JitterFree(pure.attempt)
       /\ JitterFree(pure.attempt) <= JitterFree(pure.attempt + 1)

(***************************************************************************)
(* C16: whatever max_retries is passed to the constructor, 0 and negative  *)
(* integers included, the stored attempt budget is max(1, value): it is at *)
(* least 1, and every call that has ended has made at least one attempt.   *)
(***************************************************************************)
C16_BudgetAtLeastOne ==
    (pure.fn = "construct" /\ client # None)
    => /\ client.max_retries
             = (IF pure.max_retries >= 1 THEN pure.max_retries ELSE 1)
       /\ client.max_retries >= 1
       /\ \A c \in Calls : Done(call[c]) => call[c].nreq >= 1

\* a client constructed with max_retries = 0 has served a call in one attempt
C16_Witness ==
    /\ pure.fn = "construct"
    /\ pure.max_retries = 0
    /\ client # None
    /\ \E c \in Calls : Done(call[c]) /\ call[c].nreq = 1

(***************************************************************************)
(* C17: constructing a client with no credential, neither the api_key      *)
(* argument nor the environment variable SYNAPSAI_API_KEY, fails with an   *)
(* AuthenticationError; the constructor has then created no transport      *)
(* handle, no configuration is stored and no call issues a request.        *)
(***************************************************************************)
C17_NoCredentialFailsFirst ==
    (pure.fn = "construct" /\ pure.api_key = None /\ pure.env_key = None)
    => /\ pure.pc \in {"base", "raised"}
       /\ pure.pc = "raised" => pure.exc = Some("AuthenticationError")
       /\ pure.transport = "none"
       /\ client = None
       /\ Calls = {}

\* the constructor has raised for want of a credential
C17_Witness ==
    /\ pure.fn = "construct"
    /\ pure.api_key = None
    /\ pure.env_key = None
    /\ pure.pc = "raised"
    /\ pure.exc = Some("AuthenticationError")

\* url is base and endpoint joined by exactly one "/": the base without the
\* slashes it ends with, one slash, the endpoint without the slashes it
\* begins with
JoinedByOneSlash(url, base, endpoint) ==
    \E i \in 0..Len(base), j \in 1..(Len(endpoint) + 1) :
        /\ \A n \in (i + 1)..Len(base) : base[n] = Slash
        /\ i > 0 => base[i] # Slash
        /\ \A n \in 1..(j - 1) : endpoint[n] = Slash
        /\ j <= Len(endpoint) => endpoint[j] # Slash
        /\ url = SubSeq(base, 1, i) \o <<Slash>>
                    \o SubSeq(endpoint, j, Len(endpoint))

(***************************************************************************)
(* C18: in every executor entry point (blocking and cooperative _request,  *)
(* blocking and cooperative _stream_response) the URL requested is the     *)
(* base URL and the endpoint joined by exactly one "/", whether or not the *)
(* base ends with "/" and whether or not the endpoint begins with "/".     *)
(* (The blocking _stream_response concatenates the two.)                   *)
(***************************************************************************)
C18_UrlJoinedByOneSlash ==
    (pure.fn = "request_url" /\ pure.out # None)
    => JoinedByOneSlash(pure.out[1], pure.base_url, pure.endpoint)

FirstAttempts(n) == [i \in 1..n |-> i - 1]

\* the course of one call as its own attempts decide it: one sleep per
\* retry, at the attempt indices in their order; one request per attempt
\* entered, none beyond the budget; and the result the last outcome of a
\* call to _request asks for
OwnCourse(k) ==
    /\ k.sleeps = FirstAttempts(Len(k.sleeps))
    /\ k.attempt = IF k.pc = "incr" THEN Len(k.sleeps) - 1 ELSE Len(k.sleeps)
    /\ k.nreq = IF k.pc = "loop" THEN k.attempt ELSE k.attempt + 1
    /\ k.nreq <= client.max_retries
    /\ Len(k.outcomes) <= k.nreq
    /\ (Done(k) /\ ~Cancelled(k) /\ IsRequest(k)) =>
          LET o == LastOutcome(k) IN
          k.results = <<CASE o.tag = "Success" -> Returned(o.status)
                          [] o.tag = "HttpFailure"
                                -> Raised("APIError", Some(o.status), "from response")
                          [] o.tag = "TransportFailure"
                                -> Raised("APIError", None, "str(e)")
                          [] OTHER -> Raised("OtherException", None, "")>>

\* a step is the step of one call and leaves the other call and the
\* configuration of the client as they are
OneCallSteps ==
    /\ client' = client
    /\ \A c, d \in Calls :
          (c # d /\ call'[c] # call[c]) => call'[d] = call[d]

(***************************************************************************)
(* C20: calls in progress at once on one client are independent under      *)
(* every interleaving of their steps: every step changes the state of one  *)
(* call only (no call writes another call's attempt counter or last        *)
(* outcome), no step changes the configuration of the client, and the      *)
(* attempts, sleeps and result of each call are those its own outcomes     *)
(* decide.                                                                 *)
(***************************************************************************)
C20_CallsIndependent ==
    /\ [][OneCallSteps]_vars
    /\ [](\A c \in Calls : OwnCourse(call[c]))

\* call 1 is in its second attempt while call 2 sleeps after its first
C20_Witness ==
    /\ Cardinality(Calls) = 2
    /\ call[1].attempt = 1
    /\ call[1].pc = "inflight"
    /\ call[2].attempt = 0
    /\ call[2].pc = "sleeping"
    /\ call[1].outcomes # call[2].outcomes

(***************************************************************************)
(* C21: when the task awaiting a cooperative call is cancelled while the   *)
(* call is suspended (waiting for a response, draining a body, in a        *)
(* backoff sleep, reading lines), the call ends there with the             *)
(* cancellation itself: it is not retried, not turned into an APIError,    *)
(* and the call issues no request and takes no step afterwards.            *)
(***************************************************************************)
C21_CancellationEndsCall ==
    /\ [](\A c \in Calls :
            call[c].cancelled =>
               /\ call[c].mode = "async"
               /\ Done(call[c])
               /\ call[c].results = <<Raised("CancelledError", None, "")>>)
    /\ [][\A c \in Calls :
            call[c].cancelled =>
               /\ call'[c].nreq = call[c].nreq
               /\ call'[c].sleeps = call[c].sleeps
               /\ call'[c].results = call[c].results]_vars

\* cancelled in the backoff sleep after a 503: one request, no sleep ended
C21_Witness ==
    \E c \in Calls :
        /\ call[c].cancelled
        /\ call[c].outcomes = <<Outcome("HttpFailure", 503)>>
        /\ call[c].delay # None
        /\ call[c].nreq = 1
        /\ call[c].sleeps = << >>
        /\ client.max_retries >= 2

\* the i-th open of a stream call is the open of attempt i - 1; it is
\* retried when its failure is retryable and budget remains
OpenRetried(i, o) ==
    RetryableOutcome(o) /\ i - 1 < client.max_retries - 1

\* how a stream call stands after its opens, the last of which failed;
\* errors is the set of exception classes a failed open may end the call with
StreamOpenRules(k, errors) ==
    /\ k.nreq <= client.max_retries
    /\ \A i \in 1..Len(k.outcomes) :
          FailureOutcome(k.outcomes[i]) =>
             IF OpenRetried(i, k.outcomes[i])
             THEN i = Len(k.outcomes) =>
                     \/ k.pc \in {"drain", "backoff", "sleeping", "incr",
                                  "loop", "inflight"}
                     \/ Cancelled(k)
             ELSE /\ i = Len(k.outcomes)
                  /\ Done(k)
                  /\ k.results[1].type = "raise"
                  /\ k.results[1].exc \in errors
                  /\ k.nreq = i

(***************************************************************************)
(* C22: opening a stream follows the retry rules of a non-streaming call:  *)
(* _stream_response opens at most max_retries responses; an open that      *)
(* fails with a transport failure, 429 or 5xx is followed by a sleep and a *)
(* new open only while attempt < max_retries - 1; an open that fails with  *)
(* another status >= 400, or a failed open with no budget left, ends the   *)
(* call with an APIError and no further open.  (The code ends the call     *)
(* with httpx.ResponseNotRead when the last open was an HTTP failure.)     *)
(***************************************************************************)
C22_StreamOpenRetryRules ==
    \A c \in Calls :
        IsStream(call[c]) => StreamOpenRules(call[c], {"APIError"})

\* a response status that is a failure and not retryable
NonRetryableStatus(s) == s >= 400 /\ s # 429 /\ ~(s \in 500..599)

(***************************************************************************)
(* C23: in _request a response with a non-retryable status (>= 400, not    *)
(* 429, not 5xx) on any attempt ends the call at once with an error for    *)
(* that status: it is the last outcome of the call, no sleep follows it    *)
(* and no further request is issued, also when budget remains.             *)
(***************************************************************************)
C23_NonRetryableEndsCall ==
    \A c \in Calls :
        LET k == call[c] IN
        IsRequest(k) =>
            \A i \in 1..Len(k.outcomes) :
                (k.outcomes[i].tag = "HttpFailure"
                    /\ NonRetryableStatus(k.outcomes[i].status))
                => /\ i = Len(k.outcomes)
                   /\ Done(k)
                   /\ k.results
                        = <<Raised("APIError", Some(k.outcomes[i].status),
                                   "from response")>>
                   /\ k.nreq = i
                   /\ Len(k.sleeps) = i - 1

\* a 503, a retry, then a 400 that ends the call with budget left
C23_Witness ==
    \E c \in Calls :
        LET k == call[c] IN
        /\ IsRequest(k)
        /\ client.max_retries = 3
        /\ k.outcomes = <<Outcome("HttpFailure", 503), Outcome("HttpFailure", 400)>>
        /\ Done(k)
        /\ k.nreq = 2
        /\ k.sleeps = <<0>>

(***************************************************************************)
(* C24: in _request a response with status < 400 on attempt k is returned  *)
(* as the result of the call at once: it is the last outcome, no request   *)
(* and no sleep follows it, exactly k sleeps came before it, and the k     *)
(* failures before it were retryable and raised nothing: the response is   *)
(* the only terminal result.                                               *)
(***************************************************************************)
C24_SuccessReturnedAtOnce ==
    \A c \in Calls :
        LET k == call[c] IN
        IsRequest(k) =>
            \A i \in 1..Len(k.outcomes) :
                k.outcomes[i].tag = "Success"
                => /\ k.outcomes[i].status < 400
                   /\ i = Len(k.outcomes)
                   /\ i <= client.max_retries
                   /\ Done(k)
                   /\ k.results = <<Returned(k.outcomes[i].status)>>
                   /\ k.nreq = i
                   /\ k.attempt = i - 1
                   /\ k.sleeps = [n \in 1..(i - 1) |-> n - 1]
                   /\ \A n \in 1..(i - 1) : RetryableOutcome(k.outcomes[n])

\* a transport failure, a 429, then a 200 returned on attempt 2
C24_Witness ==
    \E c \in Calls :
        LET k == call[c] IN
        /\ IsRequest(k)
        /\ Len(k.outcomes) = 3
        /\ k.outcomes[1].tag = "TransportFailure"
        /\ k.outcomes[2] = Outcome("HttpFailure", 429)
        /\ k.outcomes[3] = Outcome("Success", 200)
        /\ k.results = <<Returned(200)>>
        /\ k.sleeps = <<0, 1>>

\* the attempt index and the sleeps of a call to _request, at one point
AttemptCountsSleeps(k) ==
    /\ k.nreq = 0 => k.attempt = 0
    /\ k.sleeps = FirstAttempts(Len(k.sleeps))
    /\ k.attempt = IF k.pc = "incr" THEN Len(k.sleeps) - 1 ELSE Len(k.sleeps)
    /\ k.pc = "sleeping" =>
          /\ k.outcomes # << >>
          /\ FailureOutcome(LastOutcome(k))
          /\ k.attempt = Len(k.outcomes) - 1
          /\ \E jitter \in Jitters :
                k.delay = Some(backoff_delay(Len(k.outcomes) - 1, jitter))

\* the attempt index and the requests of a call, over one step
AttemptStep(k, kn) ==
    /\ kn.attempt \in {k.attempt, k.attempt + 1}
    /\ kn.attempt = k.attempt + 1 => (k.pc = "incr" /\ kn.nreq = k.nreq)
    /\ k.pc = "sleeping" => kn.nreq = k.nreq

(***************************************************************************)
(* C25: within one call to _request the sleep between attempt k and        *)
(* attempt k + 1 lasts _backoff_delay(k), k the 0-based index of the       *)
(* attempt that just failed; the attempt index starts at 0, grows by       *)
(* exactly 1 per retry and never decreases; the number of sleeps performed *)
(* equals the attempt index whenever a request is issued, a response is    *)
(* handled or a sleep begins (the increment is the statement that follows  *)
(* the sleep); no request is issued while a sleep is in progress.          *)
(***************************************************************************)
C25_AttemptIndexAndSleeps ==
    /\ [](\A c \in Calls : IsRequest(call[c]) => AttemptCountsSleeps(call[c]))
    /\ [][\A c \in Calls :
            IsRequest(call[c]) => AttemptStep(call[c], call'[c])]_vars

\* the second sleep of a call, for attempt 1, in progress
C25_Witness ==
    \E c \in Calls :
        LET k == call[c] IN
        /\ IsRequest(k)
        /\ k.pc = "sleeping"
        /\ k.attempt = 1
        /\ k.sleeps = <<0>>
        /\ k.nreq = 2
        /\ k.delay = Some(backoff_delay(1, 500))

\* C25 as stated: at every point of a call to _request the number of
\* sleeps performed equals the attempt index.  (After a sleep has ended and
\* before `attempt += 1` has run it is one more.)
C25_SleepsEqualAttemptAtEveryPoint ==
    \A c \in Calls :
        IsRequest(call[c]) => Len(call[c].sleeps) = call[c].attempt

\* one step of a call on the retry path of an HTTP failure: k before the
\* step, kn after it
RetryOrder(k, kn) ==
    /\ (kn.pc = "drain" /\ k.pc # "drain") =>
          /\ k.pc = "inflight"
          /\ LastOutcome(kn).tag = "HttpFailure"
          /\ RetryableOutcome(LastOutcome(kn))
          /\ kn.attempt < client.max_retries - 1
    /\ (k.pc = "inflight" /\ kn.pc # "inflight" /\ ~kn.cancelled
            /\ LastOutcome(kn).tag = "HttpFailure"
            /\ RetryableOutcome(LastOutcome(kn))
            /\ k.attempt < client.max_retries - 1) => kn.pc = "drain"
    /\ (k.pc = "drain" /\ kn # k) =>
          /\ kn.pc = "backoff" \/ kn.cancelled
          /\ kn.nreq = k.nreq /\ kn.sleeps = k.sleeps /\ kn.attempt = k.attempt
    /\ (k.pc = "backoff" /\ kn # k) =>
          /\ kn.pc = "sleeping"
          /\ kn.nreq = k.nreq /\ kn.sleeps = k.sleeps /\ kn.attempt = k.attempt
    /\ (k.pc = "sleeping" /\ kn # k) =>
          /\ kn.pc = "incr" \/ kn.cancelled
          /\ kn.pc = "incr" => kn.sleeps = Append(k.sleeps, k.attempt)
          /\ kn.nreq = k.nreq /\ kn.attempt = k.attempt
    /\ (k.pc = "incr" /\ kn # k) =>
          /\ kn.pc = "loop"
          /\ kn.attempt = k.attempt + 1
          /\ kn.nreq = k.nreq /\ kn.sleeps = k.sleeps
    /\ (k.pc = "loop" /\ kn # k) =>
          /\ kn.pc = "inflight"
          /\ kn.nreq = k.nreq + 1
          /\ kn.attempt = k.attempt /\ kn.sleeps = k.sleeps

(***************************************************************************)
(* C26: on a retryable HTTP failure with budget remaining the steps come   *)
(* in this order: the body of the failed response is drained, then the     *)
(* backoff sleep, then the attempt index is incremented, then the next     *)
(* request is issued; an error raised while the body is drained neither    *)
(* ends the call nor skips the retry.                                      *)
(***************************************************************************)
C26_DrainSleepIncrementRequest ==
    [][\A c \in Calls : RetryOrder(call[c], call'[c])]_vars

\* a stream call has slept after a 503 whose body could not be drained and
\* is about to increment the attempt index
C26_Witness ==
    \E c \in Calls :
        LET k == call[c] IN
        /\ IsStream(k)
        /\ k.outcomes = <<Outcome("HttpFailure", 503)>>
        /\ ~k.body_read
        /\ k.pc = "incr"
        /\ k.attempt = 0
        /\ k.nreq = 1
        /\ k.sleeps = <<0>>

\* the response whose lines the call reads has a status below 400
ReadsFromSuccess(k) ==
    /\ k.response # None
    /\ k.response[1] < 400
    /\ k.outcomes # << >>
    /\ LastOutcome(k) = Outcome("Success", k.response[1])

(***************************************************************************)
(* C27: _stream_response decodes no event from a response whose status is  *)
(* >= 400: for every sequence of open outcomes, lines are read, and events *)
(* yielded, only from an open response with status < 400.                  *)
(***************************************************************************)
C27_NoEventFromFailedResponse ==
    /\ [](\A c \in Calls :
            (IsStream(call[c]) /\ call[c].pc = "iter")
               => (call[c].open /\ ReadsFromSuccess(call[c])))
    /\ [][\A c \in Calls :
            (IsStream(call[c])
                /\ (call'[c].events # call[c].events
                       \/ call'[c].cursor > call[c].cursor))
            => (call[c].pc = "iter" /\ ReadsFromSuccess(call[c]))]_vars

\* after a 503 and a retry the second open succeeded and yielded an event
C27_Witness ==
    \E c \in Calls :
        LET k == call[c] IN
        /\ IsStream(k)
        /\ k.outcomes = <<Outcome("HttpFailure", 503), Outcome("Success", 200)>>
        /\ k.events = <<EventX1>>
        /\ k.pc = "iter"

(***************************************************************************)
(* C28: in _stream_response at most one streaming response of a call is    *)
(* open at any time, and the response of an attempt is released on every   *)
(* way out of the attempt (sentinel, end of input, raised error, retry)    *)
(* before the request of the next attempt is issued: no response is held   *)
(* at the loop test, while a request is in flight or after the call has    *)
(* ended, and a response is opened only when none is held.                 *)
(***************************************************************************)
C28_OneOpenResponse ==
    /\ [](\A c \in Calls :
            IsStream(call[c]) =>
               /\ call[c].pc \in {"loop", "inflight", "done"} => ~call[c].open
               /\ call[c].open => call[c].response # None)
    /\ [][\A c \in Calls :
            (IsStream(call[c])
                /\ (call'[c].nreq > call[c].nreq
                       \/ (call'[c].open /\ call'[c].outcomes # call[c].outcomes)))
            => ~call[c].open]_vars

\* the second request is in flight after a 503 whose response was held
\* through the sleep and released by the retry
C28_Witness ==
    \E c \in Calls :
        LET k == call[c] IN
        /\ IsStream(k)
        /\ k.outcomes = <<Outcome("HttpFailure", 503)>>
        /\ k.sleeps = <<0>>
        /\ k.pc = "inflight"
        /\ k.nreq = 2
        /\ ~k.open

(***************************************************************************)
(* C29: an exception raised by the transport during an attempt of _request *)
(* that is not a transport/timeout error ends the call after that attempt: *)
(* it is the last outcome, it is not retried, no sleep follows it, and the *)
(* caller receives the exception itself, not an APIError.                  *)
(***************************************************************************)
C29_OtherExceptionPropagates ==
    \A c \in Calls :
        LET k == call[c] IN
        IsRequest(k) =>
            \A i \in 1..Len(k.outcomes) :
                k.outcomes[i].tag = "OtherException"
                => /\ i = Len(k.outcomes)
                   /\ Done(k)
                   /\ Len(k.results) = 1
                   /\ k.results[1].type = "raise"
                   /\ k.results[1].exc \in OtherExcs
                   /\ k.results[1].exc # "APIError"
                   /\ k.nreq = i
                   /\ Len(k.sleeps) = i - 1
                   /\ ~should_retry(k.method, None, Some(k.results[1].exc), i - 1)

\* a 503, a retry, then an exception that is no transport error, with
\* budget left
C29_Witness ==
    \E c \in Calls :
        LET k == call[c] IN
        /\ IsRequest(k)
        /\ client.max_retries = 3
        /\ Len(k.outcomes) = 2
        /\ k.outcomes[1] = Outcome("HttpFailure", 503)
        /\ k.outcomes[2].tag = "OtherException"
        /\ k.results = <<Raised("OtherException", None, "")>>
        /\ k.sleeps = <<0>>

\* the errors raised after the loops
FallbackMessages ==
    {"Unknown error during request", "str(last_exc)",
     "Failed to establish stream after retries"}

(***************************************************************************)
(* C30: the retry loops of _request and _stream_response never end by      *)
(* their condition becoming false: at every loop test the attempt index is *)
(* below max_retries (an increment leaves it below), so every call ends by *)
(* a return or a raise inside the loop and the errors after the loops are  *)
(* never raised, for every max_retries >= 1 and every outcome sequence.    *)
(***************************************************************************)
C30_LoopNeverFallsThrough ==
    /\ [](\A c \in Calls :
            LET k == call[c] IN
            /\ client.max_retries >= 1
            /\ k.attempt < client.max_retries
            /\ k.pc = "incr" => k.attempt + 1 < client.max_retries
            /\ \A i \in 1..Len(k.results) :
                  ~(k.results[i].msg \in FallbackMessages))
    /\ [][\A c \in Calls :
            (call[c].pc = "loop" /\ call'[c] # call[c])
            => (call'[c].pc = "inflight" /\ call'[c].results = << >>)]_vars

\* the last loop test a budget of 3 allows has passed, and the call has
\* ended inside the loop with its budget spent
C30_Witness ==
    \E c \in Calls :
        LET k == call[c] IN
        /\ client.max_retries = 3
        /\ k.attempt = 2
        /\ k.nreq = 3
        /\ Done(k)
        /\ k.results = <<Raised("APIError", None, "str(e)")>>

====
